---- MODULE Spec2Model ----
(***************************************************************************)
(* State-machine model of the HistoryTable React component                 *)
(* (src/components/HistoryTable.tsx).  The file holds two revisions of the *)
(* component; `variant` selects which one is mounted.                      *)
(*                                                                         *)
(* Strings on which the code does character-level work (slice, join,       *)
(* template literals) are sequences of one-character strings.  Toast texts *)
(* are never inspected by the code and stay TLA+ strings.                  *)
(* An optional field (hash?, block?, fee?, method?) is <<>> when undefined *)
(* and <<s>> when it carries the string s.                                 *)
(* amount is a JS number; the model carries it in units of 10^-6.          *)
(* isMobile only changes the label of the download button and is left out. *)
(***************************************************************************)
EXTENDS Integers, Sequences, FiniteSets, TLC

VARIABLES variant, mounted, address, transactions, currentPage, totalPages,
          isLoading, inflight, issued, toasts, download,
          stamp, clock, shown

compVars == <<variant, mounted, address, transactions, currentPage, totalPages,
              isLoading, inflight, issued, toasts, download>>
fmtVars == <<stamp, clock, shown>>
vars == <<variant, mounted, address, transactions, currentPage, totalPages,
          isLoading, inflight, issued, toasts, download, stamp, clock, shown>>

(***************************************************************************)
(* Bounds                                                                  *)
(***************************************************************************)
\* total number of requests the component issues (mount + address changes)
MaxRequests == 2

\* Math.ceil(data.transactions.length / 50)
PageSize == 50

(***************************************************************************)
(* Arithmetic and string helpers                                           *)
(***************************************************************************)
Max(a, b) == IF a > b THEN a ELSE b
Min(a, b) == IF a < b THEN a ELSE b

\* Math.ceil(n / d) for n >= 0, d > 0
Ceil(n, d) == (n + d - 1) \div d

Digits == <<"0", "1", "2", "3", "4", "5", "6", "7", "8", "9">>

\* decimal rendering of a natural number (template literal / toString)
RECURSIVE NatStr(_)
NatStr(n) == IF n < 10 THEN <<Digits[n + 1]>>
             ELSE NatStr(n \div 10) \o <<Digits[(n % 10) + 1]>>

\* decimal rendering left-padded with zeros to width w
RECURSIVE Pad(_, _)
Pad(n, w) == IF w <= 0 THEN <<>>
             ELSE Pad(n \div 10, w - 1) \o <<Digits[(n % 10) + 1]>>

\* Array.prototype.join on an array of strings (evaluated by halves)
RECURSIVE Join(_, _)
Join(parts, sep) ==
  IF Len(parts) = 0 THEN <<>>
  ELSE IF Len(parts) = 1 THEN parts[1]
  ELSE LET h == Len(parts) \div 2
       IN  Join(SubSeq(parts, 1, h), sep) \o sep \o Join(SubSeq(parts, h + 1, Len(parts)), sep)

\* an undefined array element joins as the empty string
OptStr(o) == IF o = <<>> THEN <<>> ELSE o[1]

\* String.prototype.slice(0, 6) and slice(-4)
SliceHead(s, n) == SubSeq(s, 1, Min(n, Len(s)))
SliceTail(s, n) == SubSeq(s, Max(1, Len(s) - n + 1), Len(s))

(***************************************************************************)
(* Formatter                                                               *)
(***************************************************************************)
InvalidAddress == <<"I","n","v","a","l","i","d"," ","A","d","d","r","e","s","s">>

truncateAddress(s) ==
  IF Len(s) = 0 \/ Len(s) < 10 THEN InvalidAddress
  ELSE SliceHead(s, 6) \o <<".", ".", ".">> \o SliceTail(s, 4)

JustNow == <<"J","u","s","t"," ","n","o","w">>
SecsAgo == <<" ","s","e","c","s"," ","a","g","o">>
MinsAgo == <<" ","m","i","n","s"," ","a","g","o">>
HrsAgo == <<" ","h","r","s"," ","a","g","o">>
DaysAgo == <<" ","d","a","y","s"," ","a","g","o">>

\* getRelativeTime with the day boundary tested as hours <= 24
getRelativeTimeLateDay(timestamp, nowMs) ==
  LET diff == nowMs - timestamp * 1000
      seconds == diff \div 1000
      minutes == seconds \div 60
      hours == minutes \div 60
  IN  IF diff < 0 THEN JustNow
      ELSE IF seconds < 60 THEN NatStr(seconds) \o SecsAgo
      ELSE IF minutes < 60 THEN NatStr(minutes) \o MinsAgo
      ELSE IF hours <= 24 THEN NatStr(hours) \o HrsAgo
      ELSE NatStr(hours \div 24) \o DaysAgo

\* getRelativeTime(timestamp) with Date.now() = nowMs (milliseconds)
getRelativeTime(timestamp, nowMs) ==
  LET diff == nowMs - timestamp * 1000
      seconds == diff \div 1000
      minutes == seconds \div 60
      hours == minutes \div 60
  IN  IF diff < 0 THEN JustNow
      ELSE IF seconds < 60 THEN NatStr(seconds) \o SecsAgo
      ELSE IF minutes < 60 THEN NatStr(minutes) \o MinsAgo
      ELSE IF hours < 24 THEN NatStr(hours) \o HrsAgo
      ELSE NatStr(hours \div 24) \o DaysAgo

\* Number.prototype.toFixed(6) of a non-negative amount held in 10^-6 units
toFixed6(micro) == NatStr(micro \div 1000000) \o <<".">> \o Pad(micro % 1000000, 6)

\* drop trailing "0" characters
RECURSIVE StripZeros(_)
StripZeros(s) == IF Len(s) > 0 /\ s[Len(s)] = "0"
                 THEN StripZeros(SubSeq(s, 1, Len(s) - 1)) ELSE s

\* Number.prototype.toString of a non-negative amount held in 10^-6 units
NumToString(micro) ==
  IF micro % 1000000 = 0 THEN NatStr(micro \div 1000000)
  ELSE NatStr(micro \div 1000000) \o <<".">> \o StripZeros(Pad(micro % 1000000, 6))

DigitVal(c) == CHOOSE d \in 0..9 : Digits[d + 1] = c

\* value of a digit string
RECURSIVE ParseNat(_)
ParseNat(s) == IF Len(s) = 0 THEN 0
               ELSE 10 * ParseNat(SubSeq(s, 1, Len(s) - 1)) + DigitVal(s[Len(s)])

\* position of the first "." in s, 0 when there is none
RECURSIVE DotPos(_, _)
DotPos(s, i) == IF i > Len(s) THEN 0 ELSE IF s[i] = "." THEN i ELSE DotPos(s, i + 1)

\* 10^k
RECURSIVE Pow10(_)
Pow10(k) == IF k = 0 THEN 1 ELSE 10 * Pow10(k - 1)

\* parseFloat of a plain decimal literal, result in 10^-6 units
parseFloat(s) ==
  LET p == DotPos(s, 1)
  IN  IF p = 0 THEN ParseNat(s) * 1000000
      ELSE LET frac == SubSeq(s, p + 1, Len(s))
           IN  ParseNat(SubSeq(s, 1, p - 1)) * 1000000
               + ParseNat(frac) * Pow10(6 - Len(frac))

ETH == <<" ", "E", "T", "H">>

\* formatAmount(amount: string)
formatAmount(amount) ==
  IF Len(amount) = 0 THEN <<"0">> \o ETH
  ELSE toFixed6(parseFloat(amount)) \o ETH

\* formatFee(fee: string)
formatFee(fee) ==
  IF Len(fee) = 0 THEN <<"0">>
  ELSE toFixed6(parseFloat(fee))

\* position of the first "(" handled by /^([^(]+)/
RECURSIVE ParenPos(_, _)
ParenPos(s, i) == IF i > Len(s) THEN 0 ELSE IF s[i] = "(" THEN i ELSE ParenPos(s, i + 1)

\* simplifyMethodName(method)
simplifyMethodName(method) ==
  LET p == ParenPos(method, 1)
  IN  IF p = 0 THEN method
      ELSE IF p = 1 THEN method
      ELSE SubSeq(method, 1, p - 1)

\* civil date <<year, month, day>> of a day count since 1970-01-01 (Date)
CivilFromDays(days) ==
  LET z == days + 719468
      era == z \div 146097
      doe == z - era * 146097
      yoe == (doe - doe \div 1460 + doe \div 36524 - doe \div 146096) \div 365
      doy == doe - (365 * yoe + yoe \div 4 - yoe \div 100)
      mp == (5 * doy + 2) \div 153
      d == doy - (153 * mp + 2) \div 5 + 1
      m == IF mp < 10 THEN mp + 3 ELSE mp - 9
      y == yoe + era * 400 + (IF m <= 2 THEN 1 ELSE 0)
  IN  <<y, m, d>>

\* hh:mm:ss of a second count
ClockStr(secs) ==
  LET s == secs % 86400
  IN  Pad(s \div 3600, 2) \o <<":">> \o Pad((s % 3600) \div 60, 2) \o <<":">> \o Pad(s % 60, 2)

\* new Date(timestamp * 1000).toISOString()
toISOString(timestamp) ==
  LET c == CivilFromDays(timestamp \div 86400)
  IN  Pad(c[1], 4) \o <<"-">> \o Pad(c[2], 2) \o <<"-">> \o Pad(c[3], 2) \o <<"T">>
      \o ClockStr(timestamp) \o <<".", "0", "0", "0", "Z">>

\* Asia/Bangkok is UTC+7 all year
BangkokOffset == 25200

\* toLocaleString('en-GB', options) gives "dd/mm/yyyy, hh:mm:ss"
toLocaleStringGB(timestamp) ==
  LET local == timestamp + BangkokOffset
      c == CivilFromDays(local \div 86400)
  IN  Pad(c[3], 2) \o <<"/">> \o Pad(c[2], 2) \o <<"/">> \o Pad(c[1], 4) \o <<",", " ">>
      \o ClockStr(local)

\* position of the first "," in s, 0 when there is none
RECURSIVE CommaPos(_, _)
CommaPos(s, i) == IF i > Len(s) THEN 0 ELSE IF s[i] = "," THEN i ELSE CommaPos(s, i + 1)

\* String.prototype.replace(',', ''): removes the first comma only
RemoveFirstComma(s) ==
  LET p == CommaPos(s, 1)
  IN  IF p = 0 THEN s ELSE SubSeq(s, 1, p - 1) \o SubSeq(s, p + 1, Len(s))

\* formatTimestamp(timestamp)
formatTimestamp(timestamp) == RemoveFirstComma(toLocaleStringGB(timestamp))

(***************************************************************************)
(* Environment: addresses, API responses                                   *)
(***************************************************************************)
AddrA == <<"0","x","1","2","3","4","a","b","c","d">>
AddrB == <<"0","x","b","e","e","f","c","a","f","e">>
Addrs == {AddrA, AddrB}
Other(a) == IF a = AddrA THEN AddrB ELSE AddrA

\* Transaction records the API can return for address a (position i of a list)
SampleTx(a, i) ==
  IF i % 3 = 1 THEN
    [hash |-> << <<"0","x","a","b","c">> >>, method |-> << <<"t","r","a","n","s","f","e","r">> >>,
     block |-> << <<"1","8">> >>, fee |-> << <<"0",".","0","0","1">> >>,
     from |-> a, to |-> Other(a), amount |-> 1500000, timestamp |-> 1500000]
  ELSE IF i % 3 = 2 THEN
    [hash |-> <<>>, method |-> <<>>, block |-> <<>>, fee |-> <<>>,
     from |-> Other(a), to |-> a, amount |-> 0, timestamp |-> 1000]
  ELSE
    [hash |-> << <<"0","x","f","e","e","d","f","a","c","e">> >>,
     method |-> << <<"f","(","a",",","b",")","\n">> >>,
     block |-> << <<"1","9">> >>, fee |-> << <<"0">> >>,
     from |-> a, to |-> a, amount |-> 1, timestamp |-> 86400]

\* data.transactions of a successful response for address a with n entries
Body(a, n) == [i \in 1..n |-> SampleTx(a, i)]

\* list lengths the API answers with: none, under a page, three pages
Lens == {0, 2, 120}

\* A response: status "ok" / "notok" is response.ok with a parsed JSON body,
\* "threw" is fetch() or response.json() rejecting (network or parse error).
\* hasTx is the truthiness of data.transactions, message is data.message
\* ("" when absent).
OkResponses(a) ==
  {[status |-> "ok", hasTx |-> TRUE, txs |-> Body(a, n), message |-> ""] : n \in Lens}
FailResponses(a) ==
  {[status |-> "notok", hasTx |-> FALSE, txs |-> <<>>, message |-> "server error"],
   [status |-> "notok", hasTx |-> TRUE, txs |-> Body(a, 2), message |-> ""],
   [status |-> "ok", hasTx |-> FALSE, txs |-> <<>>, message |-> ""],
   [status |-> "threw", hasTx |-> FALSE, txs |-> <<>>, message |-> ""]}
Responses(a) == OkResponses(a) \cup FailResponses(a)

(***************************************************************************)
(* Initial state: useState defaults, effects not yet run                   *)
(***************************************************************************)
CompInit ==
  /\ variant \in {1, 2}
  /\ mounted = FALSE
  /\ address \in Addrs
  /\ transactions = <<>>
  /\ currentPage = 1
  /\ totalPages = 1
  /\ isLoading = FALSE
  /\ inflight = {}
  /\ issued = 0
  /\ toasts = <<>>
  /\ download = <<>>

Init ==
  /\ CompInit
  /\ stamp = 0
  /\ clock = 0
  /\ shown = <<>>

(***************************************************************************)
(* DataFetcher                                                             *)
(***************************************************************************)
\* fetchTransactions up to its first await: setIsLoading(true), fetch(...)
IssueFetch(a, resp) ==
  /\ isLoading' = TRUE
  /\ issued' = issued + 1
  /\ inflight' = inflight \cup {[id |-> issued + 1, addr |-> a, resp |-> resp]}

\* useEffect(() => { fetchTransactions() }, [fetchTransactions]) on mount
Mount ==
  /\ ~mounted
  /\ mounted' = TRUE
  /\ \E resp \in Responses(address) : IssueFetch(address, resp)
  /\ UNCHANGED <<variant, address, transactions, currentPage, totalPages, toasts, download>>
  /\ UNCHANGED fmtVars

\* the address prop changes: fetchTransactions is re-created and the effect re-runs
AddressChange ==
  /\ mounted
  /\ issued < MaxRequests
  /\ \E b \in Addrs \ {address} :
       /\ address' = b
       /\ \E resp \in Responses(b) : IssueFetch(b, resp)
  /\ UNCHANGED <<variant, mounted, transactions, currentPage, totalPages, toasts, download>>
  /\ UNCHANGED fmtVars

\* description fallback of the else-branch toast in the mounted revision
UnexpectedFormat == IF variant = 1 THEN "Unexpected response format."
                    ELSE "Unexpected response format"

ErrorToast(description) ==
  [title |-> "Error fetching transactions", description |-> description,
   variant |-> "destructive"]

\* FetchSucceed that applies a response only when it answers the latest request
FetchSucceedLatestOnly(r) ==
  /\ r \in inflight
  /\ r.resp.status = "ok" /\ r.resp.hasTx
  /\ transactions' = IF r.id = issued THEN r.resp.txs ELSE transactions
  /\ totalPages' = IF r.id = issued THEN Ceil(Len(r.resp.txs), PageSize) ELSE totalPages
  /\ isLoading' = FALSE
  /\ inflight' = inflight \ {r}
  /\ UNCHANGED <<variant, mounted, address, currentPage, issued, toasts, download>>
  /\ UNCHANGED fmtVars

\* response.ok && data.transactions: setTransactions, setTotalPages; finally
FetchSucceed(r) ==
  /\ r \in inflight
  /\ r.resp.status = "ok" /\ r.resp.hasTx
  /\ transactions' = r.resp.txs
  /\ totalPages' = Ceil(Len(r.resp.txs), PageSize)
  /\ isLoading' = FALSE
  /\ inflight' = inflight \ {r}
  /\ UNCHANGED <<variant, mounted, address, currentPage, issued, toasts, download>>
  /\ UNCHANGED fmtVars

\* FetchReject that also empties the list (setTransactions([]) in the else branch)
FetchRejectClearsList(r) ==
  /\ r \in inflight
  /\ r.resp.status \in {"ok", "notok"}
  /\ ~(r.resp.status = "ok" /\ r.resp.hasTx)
  /\ toasts' = Append(toasts, ErrorToast(IF r.resp.message # "" THEN r.resp.message
                                         ELSE UnexpectedFormat))
  /\ transactions' = <<>>
  /\ isLoading' = FALSE
  /\ inflight' = inflight \ {r}
  /\ UNCHANGED <<variant, mounted, address, currentPage, totalPages, issued, download>>
  /\ UNCHANGED fmtVars

\* else branch: toast with data.message || fallback; finally
FetchReject(r) ==
  /\ r \in inflight
  /\ r.resp.status \in {"ok", "notok"}
  /\ ~(r.resp.status = "ok" /\ r.resp.hasTx)
  /\ toasts' = Append(toasts, ErrorToast(IF r.resp.message # "" THEN r.resp.message
                                         ELSE UnexpectedFormat))
  /\ isLoading' = FALSE
  /\ inflight' = inflight \ {r}
  /\ UNCHANGED <<variant, mounted, address, transactions, currentPage, totalPages, issued, download>>
  /\ UNCHANGED fmtVars

\* FetchThrow without the finally block: isLoading is not reset
FetchThrowNoFinally(r) ==
  /\ r \in inflight
  /\ r.resp.status = "threw"
  /\ toasts' = Append(toasts, ErrorToast("Failed to fetch transactions."))
  /\ inflight' = inflight \ {r}
  /\ UNCHANGED <<variant, mounted, address, transactions, currentPage, totalPages,
                 isLoading, issued, download>>
  /\ UNCHANGED fmtVars

\* catch branch: fetch() or response.json() threw; finally
FetchThrow(r) ==
  /\ r \in inflight
  /\ r.resp.status = "threw"
  /\ toasts' = Append(toasts, ErrorToast("Failed to fetch transactions."))
  /\ isLoading' = FALSE
  /\ inflight' = inflight \ {r}
  /\ UNCHANGED <<variant, mounted, address, transactions, currentPage, totalPages, issued, download>>
  /\ UNCHANGED fmtVars

(***************************************************************************)
(* PaginationState (first revision only: the second renders no controls)   *)
(***************************************************************************)
\* onClick of Previous; the button is disabled when currentPage === 1
PreviousClick ==
  /\ mounted /\ variant = 1
  /\ currentPage' = IF currentPage = 1 THEN currentPage ELSE Max(currentPage - 1, 1)
  /\ UNCHANGED <<variant, mounted, address, transactions, totalPages, isLoading,
                 inflight, issued, toasts, download>>
  /\ UNCHANGED fmtVars

\* onClick of Next; the button is disabled when currentPage === totalPages
NextClick ==
  /\ mounted /\ variant = 1
  /\ currentPage' = IF currentPage = totalPages THEN currentPage
                    ELSE Min(currentPage + 1, totalPages)
  /\ UNCHANGED <<variant, mounted, address, transactions, totalPages, isLoading,
                 inflight, issued, toasts, download>>
  /\ UNCHANGED fmtVars

(***************************************************************************)
(* Exporter                                                                *)
(***************************************************************************)
CsvHeaders ==
  << <<"T","r","a","n","s","a","c","t","i","o","n"," ","H","a","s","h">>,
     <<"M","e","t","h","o","d">>, <<"B","l","o","c","k">>, <<"A","g","e">>,
     <<"F","r","o","m">>, <<"T","o">>, <<"A","m","o","u","n","t">>,
     <<"T","x","n"," ","F","e","e">> >>

\* the Age column: toISOString in the first revision, formatTimestamp in the second
CsvAge(timestamp) == IF variant = 1 THEN toISOString(timestamp)
                     ELSE formatTimestamp(timestamp)

CsvRow(tx) ==
  Join(<<OptStr(tx.hash), OptStr(tx.method), OptStr(tx.block), CsvAge(tx.timestamp),
         tx.from, tx.to, toFixed6(tx.amount), OptStr(tx.fee)>>, <<",">>)

csvContent ==
  Join(<<Join(CsvHeaders, <<",">>)>> \o [i \in 1..Len(transactions) |-> CsvRow(transactions[i])],
       <<"\n">>)

CsvSuffix == <<"_","t","r","a","n","s","a","c","t","i","o","n","s",".","c","s","v">>

\* handleDownload on a browser with the download attribute; download keeps the last file
handleDownload ==
  /\ mounted
  /\ download' = <<[name |-> address \o CsvSuffix, content |-> csvContent]>>
  /\ UNCHANGED <<variant, mounted, address, transactions, currentPage, totalPages,
                 isLoading, inflight, issued, toasts>>
  /\ UNCHANGED fmtVars

(***************************************************************************)
(* Rendering                                                               *)
(***************************************************************************)
NA == <<"N","/","A">>

\* cells of one table row at Date.now() = nowMs
RenderRow(tx, nowMs) ==
  IF variant = 1 THEN
    <<IF OptStr(tx.hash) # <<>> THEN truncateAddress(OptStr(tx.hash)) ELSE NA,
      truncateAddress(tx.from), truncateAddress(tx.to),
      toFixed6(tx.amount) \o ETH, getRelativeTime(tx.timestamp, nowMs)>>
  ELSE
    <<truncateAddress(OptStr(tx.hash)),
      truncateAddress(tx.from), truncateAddress(tx.to),
      formatAmount(NumToString(tx.amount)), formatTimestamp(tx.timestamp)>>

\* <TableBody> that slices the list by currentPage
RenderBodyPaged(nowMs) ==
  IF isLoading THEN <<[kind |-> "loading", cells |-> <<>>]>>
  ELSE IF Len(transactions) > 0
       THEN LET page == SubSeq(transactions, (currentPage - 1) * PageSize + 1,
                              Min(currentPage * PageSize, Len(transactions)))
            IN  [i \in 1..Len(page) |-> [kind |-> "tx", cells |-> RenderRow(page[i], nowMs)]]
       ELSE <<[kind |-> "empty", cells |-> <<>>]>>

\* <TableBody>: loading row, one row per transaction, or the empty row
RenderBody(nowMs) ==
  IF isLoading THEN <<[kind |-> "loading", cells |-> <<>>]>>
  ELSE IF Len(transactions) > 0
       THEN [i \in 1..Len(transactions) |->
               [kind |-> "tx", cells |-> RenderRow(transactions[i], nowMs)]]
       ELSE <<[kind |-> "empty", cells |-> <<>>]>>

(***************************************************************************)
(* Specification of the component                                          *)
(***************************************************************************)
Next ==
  \/ Mount
  \/ AddressChange
  \/ \E r \in inflight : FetchSucceed(r)
  \/ \E r \in inflight : FetchReject(r)
  \/ \E r \in inflight : FetchThrow(r)
  \/ PreviousClick
  \/ NextClick
  \/ handleDownload

Spec == Init /\ [][Next]_vars

\* every issued request is eventually answered or fails
Completion == \E r \in inflight : FetchSucceed(r) \/ FetchReject(r) \/ FetchThrow(r)

FairSpec == Spec /\ WF_vars(Completion)

(***************************************************************************)
(* Specification of the relative-time formatter on its own                 *)
(***************************************************************************)
\* timestamps (seconds)
Stamps == {0, 1000, 100000}

\* elapsed whole seconds around every bucket boundary
Elapsed == {0, 1, 30, 59, 60, 61, 3599, 3600, 3601, 7199, 86399, 86400, 90000, 172799, 172800}

\* Date.now() values (milliseconds)
Clocks == {(t + e) * 1000 + ms : t \in Stamps, e \in Elapsed, ms \in {0, 999}}

FmtInit ==
  /\ CompInit
  /\ variant = 1
  /\ address = AddrA
  /\ stamp \in Stamps
  /\ clock \in Clocks
  /\ shown = <<>>

\* a cell is rendered with getRelativeTime(stamp) at Date.now() = clock
FmtRender ==
  /\ shown = <<>>
  /\ shown' = getRelativeTime(stamp, clock)
  /\ UNCHANGED <<stamp, clock>>
  /\ UNCHANGED compVars

FmtNext == FmtRender

FmtSpec == FmtInit /\ [][FmtNext]_vars

(***************************************************************************)
(* Properties                                                              *)
(***************************************************************************)
\* Date.now() value at which the table body is rendered
NowSamples == {1500030000}

IsFailure(resp) == resp.status # "ok" \/ ~resp.hasTx
GenericFallbacks == {"Unexpected response format.", "Unexpected response format",
                     "Failed to fetch transactions."}

\* C1: the completion of a failed fetch (non-ok status, ok body without
\* transactions, network or parse error) leaves transactions, totalPages and
\* currentPage as they were and raises exactly one error notification, whose
\* text is the server message when there is one and a generic fallback otherwise.
C1_FailedFetchKeepsState ==
  [][\A r \in inflight :
       (inflight' = inflight \ {r} /\ IsFailure(r.resp)) =>
         /\ transactions' = transactions
         /\ totalPages' = totalPages
         /\ currentPage' = currentPage
         /\ Len(toasts') = Len(toasts) + 1
         /\ SubSeq(toasts', 1, Len(toasts)) = toasts
         /\ toasts'[Len(toasts')].variant = "destructive"
         /\ IF r.resp.status \in {"ok", "notok"} /\ r.resp.message # ""
            THEN toasts'[Len(toasts')].description = r.resp.message
            ELSE toasts'[Len(toasts')].description \in GenericFallbacks]_vars

\* a failed fetch completed on top of a loaded three-page list
C1_Witness ==
  /\ inflight = {} /\ issued = 2
  /\ Len(transactions) = 120 /\ totalPages = 3 /\ currentPage = 2
  /\ Len(toasts) = 1 /\ toasts[1].description = "server error"

\* C2: in every reachable state totalPages = max(1, ceil(transactions.length / 50)).
C2_TotalPagesClamped ==
  totalPages = (IF Len(transactions) = 0 THEN 1 ELSE (Len(transactions) + 49) \div 50)

\* C3: in every reachable state 1 <= currentPage <= totalPages.
C3_CurrentPageInRange == 1 <= currentPage /\ currentPage <= totalPages

\* C4: isLoading is true exactly when at least one issued request has not completed.
C4_LoadingIffOutstanding == isLoading <=> (inflight # {})

LoadingRow == <<[kind |-> "loading", cells |-> <<>>]>>
EmptyRow == <<[kind |-> "empty", cells |-> <<>>]>>

\* C5: while isLoading the body is the loading row only; when a fetch succeeds
\* with list L and nothing is outstanding afterwards, transactions is exactly L,
\* no loading row is rendered, and the body has one row per element of L in the
\* order of L whatever currentPage is (the empty row iff L is empty).
C5_SuccessReplacesAndRenders ==
  /\ [](\A n \in NowSamples :
          RenderBody(n) =
            (IF isLoading THEN LoadingRow
             ELSE IF Len(transactions) = 0 THEN EmptyRow
             ELSE [i \in 1..Len(transactions) |->
                     [kind |-> "tx", cells |-> RenderRow(transactions[i], n)]]))
  /\ [][\A r \in inflight :
          (inflight = {r} /\ inflight' = {} /\ ~IsFailure(r.resp)) =>
            (transactions' = r.resp.txs /\ ~isLoading')]_vars

\* a two-element list loaded while currentPage is still 3 from an earlier list
C5_Witness ==
  /\ inflight = {} /\ ~isLoading /\ toasts = <<>>
  /\ Len(transactions) = 2 /\ currentPage = 3
  /\ Len(RenderBody(1500030000)) = 2

HeaderLine ==
  <<"T","r","a","n","s","a","c","t","i","o","n"," ","H","a","s","h",",",
    "M","e","t","h","o","d",",","B","l","o","c","k",",","A","g","e",",",
    "F","r","o","m",",","T","o",",","A","m","o","u","n","t",",",
    "T","x","n"," ","F","e","e">>

NumLines(content) == 1 + Cardinality({i \in 1..Len(content) : content[i] = "\n"})

\* C6: Previous sets currentPage to currentPage - 1 unless it is 1, Next to
\* currentPage + 1 unless it equals totalPages; both leave transactions,
\* totalPages and isLoading unchanged and issue no request.
C6_PaginationClicks ==
  [][/\ PreviousClick =>
          currentPage' = (IF currentPage = 1 THEN currentPage ELSE currentPage - 1)
     /\ NextClick =>
          currentPage' = (IF currentPage = totalPages THEN currentPage ELSE currentPage + 1)
     /\ (PreviousClick \/ NextClick) =>
          UNCHANGED <<transactions, totalPages, isLoading, inflight, issued>>]_vars

\* C7: an export produces exactly 1 + transactions.length lines, the header row
\* first, issues no request and leaves transactions, currentPage, totalPages and
\* isLoading unchanged.
C7_ExportLines ==
  [][download' # download =>
       /\ NumLines(download'[1].content) = 1 + Len(transactions)
       /\ SubSeq(download'[1].content, 1, Len(HeaderLine)) = HeaderLine
       /\ UNCHANGED <<transactions, currentPage, totalPages, isLoading, inflight, issued>>]_vars

\* C8: relativeTime is "Just now" for a future timestamp; otherwise, with e the
\* elapsed whole seconds, it shows the single largest unit of days/hrs/mins/secs
\* with the value floor(e/86400), floor(e/3600), floor(e/60) or e.
C8_RelativeTimeBuckets ==
  shown # <<>> =>
    LET e == (clock - stamp * 1000) \div 1000 IN
    /\ shown = (IF stamp * 1000 > clock THEN <<"J","u","s","t"," ","n","o","w">>
                ELSE IF e >= 86400 THEN NatStr(e \div 86400) \o <<" ","d","a","y","s"," ","a","g","o">>
                ELSE IF e >= 3600 THEN NatStr(e \div 3600) \o <<" ","h","r","s"," ","a","g","o">>
                ELSE IF e >= 60 THEN NatStr(e \div 60) \o <<" ","m","i","n","s"," ","a","g","o">>
                ELSE NatStr(e) \o <<" ","s","e","c","s"," ","a","g","o">>)
    /\ (stamp * 1000 <= clock /\ e = 30) => shown = <<"3","0"," ","s","e","c","s"," ","a","g","o">>
    /\ (stamp * 1000 <= clock /\ e = 3600) => shown = <<"1"," ","h","r","s"," ","a","g","o">>
    /\ (stamp * 1000 <= clock /\ e = 90000) => shown = <<"1"," ","d","a","y","s"," ","a","g","o">>

\* exactly one day elapsed and rendered
C8_Witness ==
  /\ stamp = 1000 /\ clock = 87400999
  /\ shown = <<"1"," ","d","a","y","s"," ","a","g","o">>

\* C9: no request-id guard: the successful response of a request that is not the
\* latest one, or was issued for another address, is applied all the same.
C9_StaleResponseApplied ==
  [][\A r \in inflight :
       (inflight' = inflight \ {r} /\ ~IsFailure(r.resp)
          /\ (r.id < issued \/ r.addr # address)) =>
         /\ transactions' = r.resp.txs
         /\ totalPages' = (Len(r.resp.txs) + 49) \div 50]_vars

\* address went A -> B, both requests succeeded, A's list is what is shown
C9_Witness ==
  /\ address = AddrB /\ issued = 2 /\ inflight = {} /\ toasts = <<>>
  /\ transactions = Body(AddrA, 120) /\ totalPages = 3

\* C10: every loading state is followed by a non-loading one once the requests
\* complete; with nothing outstanding isLoading is false and only becomes true
\* when mount or an address change issues a request; a completion issues none.
C10_FetchCycle ==
  /\ [](isLoading => <>(~isLoading))
  /\ [](inflight = {} => ~isLoading)
  /\ [][(~isLoading /\ isLoading') => issued' = issued + 1]_vars
  /\ [][issued' # issued => (mounted' # mounted \/ address' # address)]_vars

\* one cycle ended in error and one in loaded
C10_Witness ==
  /\ ~isLoading /\ inflight = {} /\ issued = 2
  /\ Len(toasts) = 1 /\ Len(transactions) = 2

====
